---------------------------- MODULE Spec2Model ----------------------------
(***************************************************************************)
(* Model of the backup orchestrator of davexpro/backup.                    *)
(*                                                                         *)
(* Two invocations of the program (Runs) share one configuration file, one *)
(* lock file and one database server.  Every invocation is one of the      *)
(* command handlers found in the source tree:                              *)
(*   "dump"     mysql dump:  Command.Action + prepare  (mysql/cmd.go)      *)
(*              driving Worker.Backup                  (unnamed/part_002)  *)
(*   "run"      mysql:       run                       (mysql/cmd.go)      *)
(*              driving Worker.Run                     (mysql/worker.go)   *)
(*   "gitlab"   gitlab:      run                       (gitlab/cmd.go)     *)
(*              driving Worker.Run                     (gitlab/worker.go)  *)
(*   "workflow" mysql:       runWorkflow               (cmd/backup/main.go)*)
(*              driving Manager.Run                    (db/models.go)      *)
(*   "backupgitlab" gitlab:  runWorkflow               (cmd/backup/main.go)*)
(*              driving Manager.BackupGitLab           (db/models.go)      *)
(* External collaborators (mysqlsh, zip, docker, the object store, the     *)
(* notifier, the file system) answer nondeterministically.                 *)
(***************************************************************************)
EXTENDS Integers, Sequences, FiniteSets, TLC

(***************************************************************************)
(* Bounds of the model.                                                    *)
(***************************************************************************)
\* number of schemas the database server may hold (a prefix of AllSchemas)
MaxDbs == 3
\* the same, for the behaviours in which both invocations start
MaxDbsContended == 1
\* the same, for the behaviours in which prefix filters are configured or
\* Worker.Run appends the included names to its targets
MaxDbsFiltered == 2
\* largest archive size, in abstract units, the archive step may produce
MaxSize == 2

\* the hours the wall clock is followed through: a behaviour starts at an
\* hour of 0..MaxRunHours and an hour passes at most until MaxRunHours
MaxRunHours == 2

\* LoadConfig: "cfg.Retention.Hours = 24 * 7 // Default to 1 week"
DefaultRetentionHours == 24 * 7

Runs == {"r1", "r2"}

Variants == {"dump", "run", "gitlab", "workflow", "backupgitlab"}

\* the handlers started by runWorkflow, which ends in log.Fatalf on an error
WorkflowVariants == {"workflow", "backupgitlab"}

\* the handlers whose one target is the GitLab container
GitlabVariants == {"gitlab", "backupgitlab"}

\* an order on the handlers: two invocations that start together are
\* interchangeable, so of each pair of handlers one assignment is kept
VariantRank ==
    [v \in Variants |->
        CASE v = "dump" -> 1 [] v = "run" -> 2 [] v = "gitlab" -> 3
          [] v = "workflow" -> 4 [] v = "backupgitlab" -> 5]

\* Go's nil error, nil slice element and zero values
Nil == "nil"

NoRun == "none"

(***************************************************************************)
(* Small sequence helpers.                                                 *)
(***************************************************************************)
InSeq(x, s) == \E i \in 1..Len(s) : s[i] = x

Range(s) == {s[i] : i \in 1..Len(s)}

\* the schemas a server may hold, in the order information_schema.schemata
\* lists them; the server of a behaviour holds a prefix of it
AllSchemas == <<"app_db", "logs_db", "mysql", "billing", "sys">>

Catalogs == {SubSeq(AllSchemas, 1, n) : n \in 0..MaxDbs}

\* a line of mysqlsh's combined output that is no schema name and that
\* listDatabases lets through (it does not START with "WARNING:")
NoiseLine == "mysqlsh: WARNING: Using a password on the command line"

\* strings.Contains(dbName, "WARNING:") on the names of the model
ContainsWARNING(dbName) == dbName = NoiseLine

IncludeLists == {<<>>, <<"logs_db", "app_db">>, <<"mysql", "billing">>}

ExcludeLists == {<<>>, <<"logs_db">>}

\* values of retention.hours in the configuration file
ConfiguredHours == {-1, 0, 1}

\* objects a bucket may hold before the run, with their age in hours: one
\* older than the default retention, one two hours old, one an hour old
StoredObjects ==
    {[key |-> <<NoRun, "old", 0>>, age |-> DefaultRetentionHours + 1],
     [key |-> <<NoRun, "recent", 0>>, age |-> 2],
     [key |-> <<NoRun, "hour", 0>>, age |-> 1]}

\* table names, written as the sequence of their parts, so that "log" is a
\* prefix of "log_a" as <<"log">> is one of <<"log", "a">>
TableNames == {<<"log", "a">>, <<"log", "b">>, <<"users">>}

\* the tables every schema of the server holds when the behaviour starts
InitialTables == {<<"log", "a">>, <<"users">>}

\* cfg.MySQL.TableFilters with its four lists empty
NoFilters ==
    [Include |-> {}, Exclude |-> {}, IncludePrefix |-> {}, ExcludePrefix |-> {}]

\* values of mysql.table_filters in the configuration file
TableFilterSets ==
    {NoFilters,
     [NoFilters EXCEPT !.IncludePrefix = {<<"log">>}],
     [NoFilters EXCEPT !.ExcludePrefix = {<<"log">>}],
     [NoFilters EXCEPT !.IncludePrefix = {<<"tmp">>}]}

\* values of encryption.password in the configuration file
Passwords == {"", "secret"}

\* the locals of Worker.Recover before its first statement: what os.Stat
\* found at inputPath, the arguments of the unzip process (<<>>: not run),
\* dumpDir, the outcome of the os.Stat of dumpDir's @.json (Nil: not
\* checked), whether mysqlsh util.loadDump was started, and its error
NoRecover ==
    [input |-> Nil, unzipArgs |-> <<>>, dumpDir |-> Nil, meta |-> Nil,
     loadDump |-> FALSE, err |-> Nil]

\* the staging files of a target: the paths backupDatabase created, those
\* whose removal it deferred, and those removed when it returned
NoFiles == [created |-> {}, deferred |-> {}, removed |-> {}]


(***************************************************************************)
(* State.                                                                  *)
(***************************************************************************)
VARIABLES
    cfg,          \* the shared configuration: cfg.MySQL.Include / Exclude,
                  \* cfg.Retention.Hours, cfg.Backup.DeleteAfterUpload,
                  \* cfg.MySQL.TableFilters, and cfg.Telegram: both
                  \* BotToken and ChatID are set
    catalog,      \* the schemas the database server holds, in listing order
    tables,       \* the tables each of these schemas holds
    flock,        \* the kernel's advisory lock on cfg.LockFile: its holder
    variant,      \* per run: the command handler it executes
    onlyDump,     \* per run: the --only-dump flag
    pc,           \* per run: position in the handler
    ctxDone,      \* per run: the run-scoped context has been cancelled
    lockErr,      \* per run: the error AcquireLock returned ("unset" before)
    unlockCalls,  \* per run: invocations of the release function
    databases,    \* per run: the slice the target loop ranges over
    idx,          \* per run: index of the loop in databases
    art,          \* per run: size of the archive of the target in progress
    results,      \* per run: []BackupResult
    successCount, \* per run
    failCount,    \* per run
    report,       \* per run: the report handed to the notifier, or Nil
    calls,        \* per run: collaborator invocations so far
    ret,          \* per run: what the handler returned, or Nil
    bucket,       \* the objects of the bucket under cfg.R2.PathPrefix
    retentionLog, \* per run: what EnforceRetention wrote to the process's log
    notifyErr,    \* per run: the error of notifier.Send the process logged
    stages,       \* per run: the stages invoked for the target in progress
                  \* (or just finished), each with its outcome
    staged,       \* per run: the staging files of that target
    dumpOpts,     \* per run: the options of every util.dumpSchemas that ran,
                  \* each with the tables it dumped
    now,          \* the wall clock, in hours
    timeNow,      \* per run: the time.Now() Worker.Backup took before its loop
    paths,        \* per run: the staging paths of every target it started
    remoteBackupPath, \* per run: the path of the backup file in the container
    rec           \* per run: the locals of Worker.Recover

vars == <<cfg, catalog, flock, variant, onlyDump, pc, ctxDone, lockErr,
          unlockCalls, databases, idx, art, results, successCount,
          failCount, report, calls, ret, bucket, retentionLog, tables,
          notifyErr, stages, staged, dumpOpts, now, timeNow, paths,
          remoteBackupPath, rec>>

envVars == <<cfg, catalog, tables, variant, onlyDump, now>>

loopVars == <<databases, idx, art, results, successCount, failCount>>

storeVars == <<bucket, retentionLog, notifyErr>>

moreVars == <<timeNow, paths, remoteBackupPath, rec>>

pipeVars == <<stages, staged, dumpOpts, moreVars>>

ZeroCalls == [list |-> 0, dump |-> 0, archive |-> 0, hash |-> 0,
              publish |-> 0, copy |-> 0, upload |-> 0, retention |-> 0,
              listobjects |-> 0, report |-> 0]

Called(r, what) == [calls EXCEPT ![r][what] = @ + 1]

\* error values: the handler's error, as its format string, the number the
\* format prints with %d (0 when it has none) and the error it wraps with
\* %w or %v (Nil when it wraps none)
Err(msg, count, cause) ==
    [ok |-> FALSE, msg |-> msg, count |-> count, cause |-> cause]

Ok == [ok |-> TRUE, msg |-> Nil, count |-> 0, cause |-> Nil]

\* outcomes of a collaborator call that honours the run's context: a
\* cancelled context makes exec.CommandContext and the storage client fail
CtxCall(r) == IF ctxDone[r] THEN {FALSE} ELSE BOOLEAN

\* what a call of EnforceRetention leaves in the log: the objects the
\* listing delivered, whether the listing delivered an error, the objects
\* whose removal was tried and those whose removal failed, and the error
\* the call returned
Enforced(listed, listErr, tried, failed) ==
    [listed |-> listed, listErr |-> listErr, tried |-> tried,
     failed |-> failed, err |-> Nil]

NotEnforced == Enforced({}, FALSE, {}, {})

(***************************************************************************)
(* Init.  The kernel lock is free and no handler has acquired anything.    *)
(* Either both invocations are about to start (uploading, no include and   *)
(* exclude list, a server of at most MaxDbsContended schemas), or r2 is an *)
(* invocation that is already over and r1 is about to start against a      *)
(* server of at most MaxDbs schemas.  The bucket is empty and the          *)
(* retention is an hour, or (r1 alone, no include and exclude list, a      *)
(* server of at most MaxDbsContended schemas) the bucket holds             *)
(* StoredObjects and the retention is any of ConfiguredHours.  The         *)
(* delete-after-upload flag is set and no table filter is configured, or   *)
(* (r1 alone, no include and exclude list) the flag is unset against a     *)
(* server of at most MaxDbsContended schemas, or a prefix filter is        *)
(* configured for a mysql Worker against at most MaxDbsFiltered schemas.   *)
(* The notifier is configured in the behaviours of the last three kinds.   *)
(* Worker.Run with an include list, which processes the included names     *)
(* twice, meets a server of at most MaxDbsFiltered schemas.  The archives  *)
(* are encrypted with a passphrase, except where the delete-after-upload   *)
(* flag is unset: there the passphrase is empty.  The behaviour starts in  *)
(* the last hour the clock is followed through, or (r1 alone uploading, no *)
(* include and exclude list, at most MaxDbsFiltered schemas) at hour 0.    *)
(***************************************************************************)
InitRun(started) ==
    /\ flock = NoRun
    /\ pc = [r \in Runs |-> IF r \in started THEN "start" ELSE "exited"]
    /\ ret = [r \in Runs |-> IF r \in started THEN Nil ELSE Ok]
    /\ ctxDone = [r \in Runs |-> FALSE]
    /\ lockErr = [r \in Runs |-> "unset"]
    /\ unlockCalls = [r \in Runs |-> 0]
    /\ databases = [r \in Runs |-> <<>>]
    /\ idx = [r \in Runs |-> 0]
    /\ art = [r \in Runs |-> 0]
    /\ results = [r \in Runs |-> <<>>]
    /\ successCount = [r \in Runs |-> 0]
    /\ failCount = [r \in Runs |-> 0]
    /\ report = [r \in Runs |-> Nil]
    /\ calls = [r \in Runs |-> ZeroCalls]
    /\ retentionLog = [r \in Runs |-> NotEnforced]
    /\ notifyErr = [r \in Runs |-> Nil]
    /\ stages = [r \in Runs |-> <<>>]
    /\ staged = [r \in Runs |-> NoFiles]
    /\ dumpOpts = [r \in Runs |-> <<>>]
    /\ timeNow = [r \in Runs |-> 0]
    /\ paths = [r \in Runs |-> <<>>]
    /\ remoteBackupPath = [r \in Runs |-> Nil]
    /\ rec = [r \in Runs |-> NoRecover]

Init ==
    /\ cfg \in [Include : IncludeLists, Exclude : ExcludeLists,
                Retention : ConfiguredHours, DeleteAfterUpload : BOOLEAN,
                TableFilters : TableFilterSets, Telegram : BOOLEAN,
                Password : Passwords]
    /\ tables = InitialTables
    /\ variant \in [Runs -> Variants]
    /\ onlyDump \in [Runs -> BOOLEAN]
    \* the configuration read by runWorkflow has no include list (part_004)
    /\ (\E r \in Runs : variant[r] \in WorkflowVariants) => cfg.Include = <<>>
    /\ \/ /\ catalog \in {c \in Catalogs : Len(c) <= MaxDbsContended}
          /\ cfg.Include = <<>> /\ cfg.Exclude = <<>>
          /\ cfg.Retention = 1 /\ bucket = {}
          /\ cfg.DeleteAfterUpload /\ cfg.TableFilters = NoFilters
          /\ ~cfg.Telegram
          /\ cfg.Password = "secret" /\ now = MaxRunHours
          /\ ~onlyDump["r1"] /\ ~onlyDump["r2"]
          /\ VariantRank[variant["r1"]] <= VariantRank[variant["r2"]]
          /\ InitRun(Runs)
       \/ /\ catalog \in Catalogs
          /\ (variant["r1"] = "run" /\ cfg.Include # <<>>) =>
                 Len(catalog) <= MaxDbsFiltered
          /\ cfg.Retention = 1 /\ bucket = {}
          /\ cfg.DeleteAfterUpload /\ cfg.TableFilters = NoFilters
          /\ ~cfg.Telegram
          /\ cfg.Password = "secret" /\ now = MaxRunHours
          /\ variant["r2"] = "gitlab"
          /\ ~onlyDump["r2"]
          /\ InitRun({"r1"})
       \/ /\ catalog \in {c \in Catalogs : Len(c) <= MaxDbsContended}
          /\ cfg.Include = <<>> /\ cfg.Exclude = <<>>
          /\ bucket = StoredObjects
          /\ cfg.DeleteAfterUpload /\ cfg.TableFilters = NoFilters
          /\ cfg.Telegram
          /\ cfg.Password = "secret" /\ now = MaxRunHours
          /\ variant["r2"] = "gitlab"
          /\ ~onlyDump["r2"]
          /\ InitRun({"r1"})
       \/ /\ catalog \in {c \in Catalogs : Len(c) <= MaxDbsContended}
          /\ cfg.Include = <<>> /\ cfg.Exclude = <<>>
          /\ cfg.Retention = 1 /\ bucket = {}
          /\ ~cfg.DeleteAfterUpload /\ cfg.TableFilters = NoFilters
          /\ cfg.Telegram
          /\ cfg.Password = "" /\ now = MaxRunHours
          /\ variant["r2"] = "gitlab"
          /\ ~onlyDump["r2"]
          /\ InitRun({"r1"})
       \/ /\ catalog \in {c \in Catalogs : Len(c) <= MaxDbsFiltered}
          /\ cfg.Include = <<>> /\ cfg.Exclude = <<>>
          /\ cfg.Retention = 1 /\ bucket = {}
          /\ cfg.DeleteAfterUpload /\ cfg.TableFilters # NoFilters
          /\ variant["r1"] \in {"dump", "run"}
          /\ cfg.Telegram
          /\ cfg.Password = "secret" /\ now = MaxRunHours
          /\ variant["r2"] = "gitlab"
          /\ ~onlyDump["r2"]
          /\ InitRun({"r1"})
       \/ /\ catalog \in {c \in Catalogs : Len(c) <= MaxDbsFiltered}
          /\ cfg.Include = <<>> /\ cfg.Exclude = <<>>
          /\ cfg.Retention = 1 /\ bucket = {}
          /\ cfg.DeleteAfterUpload /\ cfg.TableFilters = NoFilters
          /\ ~cfg.Telegram
          /\ cfg.Password = "secret" /\ now = 0
          /\ variant["r2"] = "gitlab"
          /\ ~onlyDump["r1"] /\ ~onlyDump["r2"]
          /\ InitRun({"r1"})

(***************************************************************************)
(* Leaving the handler.                                                    *)
(***************************************************************************)
\* fileLock.Unlock(): the kernel lock is dropped if this run holds it
Unlock(r) == IF flock = r THEN NoRun ELSE flock

\* the handler's frame is gone: its locals no longer exist
DropLocals(r) ==
    /\ ctxDone' = [ctxDone EXCEPT ![r] = FALSE]
    /\ databases' = [databases EXCEPT ![r] = <<>>]
    /\ idx' = [idx EXCEPT ![r] = 0]
    /\ art' = [art EXCEPT ![r] = 0]
    /\ results' = [results EXCEPT ![r] = <<>>]
    /\ successCount' = [successCount EXCEPT ![r] = 0]
    /\ failCount' = [failCount EXCEPT ![r] = 0]
    /\ report' = [report EXCEPT ![r] = Nil]
    /\ calls' = [calls EXCEPT ![r] = ZeroCalls]
    /\ stages' = [stages EXCEPT ![r] = <<>>]
    /\ staged' = [staged EXCEPT ![r] = NoFiles]
    /\ dumpOpts' = [dumpOpts EXCEPT ![r] = <<>>]
    /\ timeNow' = [timeNow EXCEPT ![r] = 0]
    /\ paths' = [paths EXCEPT ![r] = <<>>]
    /\ remoteBackupPath' = [remoteBackupPath EXCEPT ![r] = Nil]
    /\ rec' = [rec EXCEPT ![r] = NoRecover]

\* "return e" from the handler; unlocks is the number of times the release
\* function runs on the way out (deferred, or called before the return)
ReturnErr(r, e, unlocks) ==
    /\ pc' = [pc EXCEPT ![r] = "returned"]
    /\ ret' = [ret EXCEPT ![r] = e]
    /\ unlockCalls' = [unlockCalls EXCEPT ![r] = @ + unlocks]
    /\ flock' = IF unlocks > 0 THEN Unlock(r) ELSE flock
    /\ DropLocals(r)
    /\ UNCHANGED <<envVars, storeVars, lockErr>>

\* log.Fatalf: os.Exit(1) without running deferred calls; the kernel closes
\* the process's descriptors, which drops its advisory lock and ends its log
Fatalf(r, e) ==
    /\ pc' = [pc EXCEPT ![r] = "exited"]
    /\ ret' = [ret EXCEPT ![r] = e]
    /\ flock' = Unlock(r)
    /\ DropLocals(r)
    /\ retentionLog' = [retentionLog EXCEPT ![r] = NotEnforced]
    /\ notifyErr' = [notifyErr EXCEPT ![r] = Nil]
    /\ UNCHANGED <<envVars, bucket, lockErr, unlockCalls>>

\* the process ends after the handler returned (main: log.Fatal on an error)
ProcessExit(r) ==
    /\ pc[r] = "returned"
    /\ pc' = [pc EXCEPT ![r] = "exited"]
    /\ flock' = Unlock(r)
    /\ retentionLog' = [retentionLog EXCEPT ![r] = NotEnforced]
    /\ notifyErr' = [notifyErr EXCEPT ![r] = Nil]
    /\ UNCHANGED <<envVars, bucket, pipeVars, ctxDone, lockErr, unlockCalls,
                   loopVars, report, calls, ret>>


(***************************************************************************)
(* Start-up of the handlers: configuration, lock, storage.                 *)
(***************************************************************************)
\* helper.CheckTools (dump, gitlab) and config.LoadConfig: a failure returns
\* before the lock is tried
LoadConfig(r) ==
    /\ pc[r] = "start"
    /\ \E ok \in BOOLEAN :
        IF ok
        THEN /\ pc' = [pc EXCEPT ![r] = "lock"]
             /\ UNCHANGED <<envVars, storeVars, pipeVars, flock, ctxDone, lockErr, unlockCalls,
                            loopVars, report, calls, ret>>
        ELSE ReturnErr(r, Err("failed to load config: %w", 0, Nil), 0)

\* flock.TryLock: flock(fd, LOCK_EX | LOCK_NB) grants the lock iff no other
\* open file description holds it
TryLock(r) == flock = NoRun

\* AcquireLock without its "if !locked" return: the release function is
\* handed out whether or not the kernel granted the lock
AcquireLock_IgnoresLocked(r) ==
    /\ pc[r] = "lock"
    /\ pc' = [pc EXCEPT ![r] = "lockret"]
    /\ \E mkdirErr \in BOOLEAN, tryErr \in BOOLEAN :
        IF mkdirErr
        THEN /\ lockErr' = [lockErr EXCEPT ![r] = "failed to create lock directory: %w"]
             /\ flock' = flock
        ELSE IF tryErr
        THEN /\ lockErr' = [lockErr EXCEPT ![r] = "failed to attempt lock: %w"]
             /\ flock' = flock
        ELSE /\ lockErr' = [lockErr EXCEPT ![r] = Nil]
             /\ flock' = IF TryLock(r) THEN r ELSE flock
    /\ UNCHANGED <<envVars, storeVars, pipeVars, ctxDone, unlockCalls, loopVars, report, calls, ret>>

\* AcquireLock with fileLock.Lock() in place of TryLock(): the call waits
\* for the holder to release
AcquireLock_Blocking(r) ==
    /\ pc[r] = "lock"
    /\ pc' = [pc EXCEPT ![r] = "lockret"]
    /\ \E mkdirErr \in BOOLEAN, tryErr \in BOOLEAN :
        IF mkdirErr
        THEN /\ lockErr' = [lockErr EXCEPT ![r] = "failed to create lock directory: %w"]
             /\ flock' = flock
        ELSE IF tryErr
        THEN /\ lockErr' = [lockErr EXCEPT ![r] = "failed to attempt lock: %w"]
             /\ flock' = flock
        ELSE /\ flock = NoRun
             /\ lockErr' = [lockErr EXCEPT ![r] = Nil]
             /\ flock' = r
    /\ UNCHANGED <<envVars, storeVars, pipeVars, ctxDone, unlockCalls, loopVars, report, calls, ret>>

\* utils.AcquireLock: the error it returns and the kernel lock afterwards
AcquireLock(r) ==
    /\ pc[r] = "lock"
    /\ pc' = [pc EXCEPT ![r] = "lockret"]
    /\ \E mkdirErr \in BOOLEAN, tryErr \in BOOLEAN :
        IF mkdirErr
        THEN /\ lockErr' = [lockErr EXCEPT ![r] = "failed to create lock directory: %w"]
             /\ flock' = flock
        ELSE IF tryErr
        THEN /\ lockErr' = [lockErr EXCEPT ![r] = "failed to attempt lock: %w"]
             /\ flock' = flock
        ELSE IF ~TryLock(r)
        THEN /\ lockErr' = [lockErr EXCEPT ![r] = "lock file %s is already locked"]
             /\ flock' = flock
        ELSE /\ lockErr' = [lockErr EXCEPT ![r] = Nil]
             /\ flock' = r
    /\ UNCHANGED <<envVars, storeVars, pipeVars, ctxDone, unlockCalls, loopVars, report, calls, ret>>

\* the caller without its "if err != nil" after AcquireLock
CheckLock_IgnoresErr(r) ==
    /\ pc[r] = "lockret"
    /\ pc' = [pc EXCEPT ![r] =
           IF variant[r] \in WorkflowVariants THEN "gorm" ELSE "storage"]
    /\ UNCHANGED <<envVars, storeVars, pipeVars, flock, ctxDone, lockErr, unlockCalls, loopVars,
                   report, calls, ret>>

\* the caller's "if err != nil" after AcquireLock: prepare, run (mysql and
\* gitlab) return the error, runWorkflow calls log.Fatalf
CheckLock(r) ==
    /\ pc[r] = "lockret"
    /\ IF lockErr[r] # Nil
       THEN IF variant[r] \in WorkflowVariants
            THEN Fatalf(r, Err("Could not acquire lock: %v", 0, lockErr[r]))
            ELSE ReturnErr(r, Err("could not acquire lock: %w", 0, lockErr[r]), 0)
       ELSE /\ pc' = [pc EXCEPT ![r] =
                        IF variant[r] \in WorkflowVariants THEN "gorm" ELSE "storage"]
            /\ UNCHANGED <<envVars, storeVars, pipeVars, flock, ctxDone, lockErr, unlockCalls,
                           loopVars, report, calls, ret>>

\* runWorkflow: the connection to MySQL and the sys_backup schema; every
\* failure is a log.Fatalf
InitGorm(r) ==
    /\ pc[r] = "gorm"
    /\ \E ok \in BOOLEAN :
        IF ok
        THEN /\ pc' = [pc EXCEPT ![r] = "storage"]
             /\ UNCHANGED <<envVars, storeVars, pipeVars, flock, ctxDone, lockErr, unlockCalls,
                            loopVars, report, calls, ret>>
        ELSE Fatalf(r, Err("Failed to connect to MySQL: %v", 0, Nil))

\* NewStorage and its caller: prepare calls unlock() and returns the error,
\* run returns it under "defer unlock()", runWorkflow calls log.Fatalf
NewStorage(r) ==
    /\ pc[r] = "storage"
    /\ \E ok \in BOOLEAN :
        IF ok
        THEN /\ pc' = [pc EXCEPT ![r] =
                         IF variant[r] \in GitlabVariants THEN "g_mkdir"
                         ELSE IF variant[r] = "recover" THEN "r_stat"
                         ELSE "list"]
             /\ UNCHANGED <<envVars, storeVars, pipeVars, flock, ctxDone, lockErr, unlockCalls,
                            loopVars, report, calls, ret>>
        ELSE IF variant[r] \in WorkflowVariants
             THEN Fatalf(r, Err("Failed to initialize MinIO/S3 storage: %v", 0, Nil))
             ELSE ReturnErr(r, Err("failed to initialize storage: %w", 0, Nil), 1)

\* the run-scoped context is cancelled while the handler works
Cancel(r) ==
    /\ pc[r] \notin {"start", "lock", "lockret", "returned", "exited"}
    /\ ~ctxDone[r]
    /\ ctxDone' = [ctxDone EXCEPT ![r] = TRUE]
    /\ UNCHANGED <<envVars, storeVars, pipeVars, flock, pc, lockErr, unlockCalls, loopVars, report,
                   calls, ret>>


(***************************************************************************)
(* Target enumeration and filtering.                                       *)
(***************************************************************************)
systemDBs == <<"information_schema", "performance_schema", "mysql", "sys">>

\* shouldExcludeDB without its loop over systemDBs
shouldExcludeDB_ExcludeOnly(dbName) == InSeq(dbName, cfg.Exclude)

\* shouldExcludeDB without its loop over cfg.MySQL.Exclude
shouldExcludeDB_SystemOnly(dbName) == InSeq(dbName, systemDBs)

\* Worker.shouldExcludeDB / Manager.shouldExclude
shouldExcludeDB(dbName) ==
    \/ InSeq(dbName, systemDBs)
    \/ InSeq(dbName, cfg.Exclude)

\* Worker.filterDatabases of Worker.Backup: the include list narrows
filterDatabases_Backup(dbs) ==
    LET filtered == SelectSeq(dbs, LAMBDA dbName : ~ContainsWARNING(dbName))
        includedOnly == SelectSeq(filtered, LAMBDA db : InSeq(db, cfg.Include))
    IN  IF Len(cfg.Include) > 0 THEN includedOnly ELSE filtered

\* Worker.filterDatabases of Worker.Run: the included names are appended to
\* the slice the loop ranges over (range has fixed its length before)
filterDatabases_Run(dbs) ==
    LET filtered == SelectSeq(dbs, LAMBDA dbName : ~ContainsWARNING(dbName))
        included == SelectSeq(filtered, LAMBDA db : InSeq(db, cfg.Include))
    IN  IF Len(cfg.Include) > 0 THEN filtered \o included ELSE filtered

\* what listDatabases parses out of mysqlsh's combined output: the schema
\* names, with or without a warning line it does not recognise
ListOutputs == {catalog, <<NoiseLine>> \o catalog}

\* the head of the handlers with "return nil" where listDatabases failed
ListDatabases_ReturnsNil(r) ==
    /\ pc[r] = "list"
    /\ IF variant[r] = "workflow"
       THEN \E ok \in BOOLEAN :
            IF ok
            THEN /\ databases' = [databases EXCEPT ![r] = catalog]
                 /\ idx' = [idx EXCEPT ![r] = 1]
                 /\ pc' = [pc EXCEPT ![r] = "loop"]
                 /\ calls' = Called(r, "list")
                 /\ timeNow' = [timeNow EXCEPT ![r] = now]
                 /\ UNCHANGED <<envVars, storeVars, stages, staged, dumpOpts,
                                paths, remoteBackupPath, rec, flock, ctxDone,
                                lockErr, unlockCalls, art, results,
                                successCount, failCount, report, ret>>
            ELSE ReturnErr(r, Ok, 1)
       ELSE \E ok \in CtxCall(r) :
            IF ok
            THEN \E parsed \in ListOutputs :
                 /\ databases' = [databases EXCEPT ![r] =
                        IF variant[r] = "dump"
                        THEN filterDatabases_Backup(parsed)
                        ELSE filterDatabases_Run(parsed)]
                 /\ idx' = [idx EXCEPT ![r] = 1]
                 /\ pc' = [pc EXCEPT ![r] = "loop"]
                 /\ calls' = Called(r, "list")
                 /\ timeNow' = [timeNow EXCEPT ![r] = now]
                 /\ UNCHANGED <<envVars, storeVars, stages, staged, dumpOpts,
                                paths, remoteBackupPath, rec, flock, ctxDone,
                                lockErr, unlockCalls, art, results,
                                successCount, failCount, report, ret>>
            ELSE ReturnErr(r, Ok, 1)

\* listDatabases, then filterDatabases, at the head of Worker.Backup,
\* Worker.Run and Manager.Run; Manager.Run's error ends runWorkflow in
\* log.Fatalf
ListDatabases(r) ==
    /\ pc[r] = "list"
    /\ IF variant[r] = "workflow"
       THEN \E ok \in BOOLEAN :
            IF ok
            THEN /\ databases' = [databases EXCEPT ![r] = catalog]
                 /\ idx' = [idx EXCEPT ![r] = 1]
                 /\ pc' = [pc EXCEPT ![r] = "loop"]
                 /\ calls' = Called(r, "list")
                 /\ timeNow' = [timeNow EXCEPT ![r] = now]
                 /\ UNCHANGED <<envVars, storeVars, stages, staged, dumpOpts,
                                paths, remoteBackupPath, rec, flock, ctxDone,
                                lockErr, unlockCalls, art, results,
                                successCount, failCount, report, ret>>
            ELSE Fatalf(r, Err("Backup workflow failed: %v", 0,
                               "failed to list databases: %w"))
       ELSE \E ok \in CtxCall(r) :
            IF ok
            THEN \E parsed \in ListOutputs :
                 /\ databases' = [databases EXCEPT ![r] =
                        IF variant[r] = "dump"
                        THEN filterDatabases_Backup(parsed)
                        ELSE filterDatabases_Run(parsed)]
                 /\ idx' = [idx EXCEPT ![r] = 1]
                 /\ pc' = [pc EXCEPT ![r] = "loop"]
                 /\ calls' = Called(r, "list")
                 /\ timeNow' = [timeNow EXCEPT ![r] = now]
                 /\ UNCHANGED <<envVars, storeVars, stages, staged, dumpOpts,
                                paths, remoteBackupPath, rec, flock, ctxDone,
                                lockErr, unlockCalls, art, results,
                                successCount, failCount, report, ret>>
            ELSE ReturnErr(r, Err("failed to list databases: %w", 0, Nil), 1)

(***************************************************************************)
(* The target loop and the per-target pipeline.                            *)
(***************************************************************************)
\* the name of the target in progress
CurDb(r) ==
    IF variant[r] \in GitlabVariants THEN "gitlab" ELSE databases[r][idx[r]]

\* crypto/sha256 over the archive, hex-encoded by fmt.Sprintf("%x"): a
\* digest is never the empty string; Go's "" is the empty sequence
SHA256Hex(content) == <<"sha256", content>>

\* BackupResult{Database: dbName, Success: false, Error: err}
Failed(dbName, err) ==
    [Database |-> dbName, Success |-> FALSE, Size |-> 0, SHA256 |-> <<>>,
     Error |-> err]

\* BackupResult{Database: dbName, Success: true, Size: size, SHA256: hash}
Succeeded(dbName, size, hash) ==
    [Database |-> dbName, Success |-> TRUE, Size |-> size, SHA256 |-> hash,
     Error |-> Nil]

\* the last return with "Success: true" written in place of the comparison
Uploaded_AlwaysSuccess(dbName, size, hash, uploadErr) ==
    [Database |-> dbName, Success |-> TRUE, Size |-> size, SHA256 |-> hash,
     Error |-> uploadErr]

\* gitlab Worker.backup's last return: Success: uploadErr == nil, with the
\* size and the hash set whatever uploadErr is
Uploaded(dbName, size, hash, uploadErr) ==
    [Database |-> dbName, Success |-> uploadErr = Nil, Size |-> size,
     SHA256 |-> hash, Error |-> uploadErr]

\* the loop body with a "break" after a failed target
Collect_StopsOnFailure(r, result) ==
    /\ art' = [art EXCEPT ![r] = 0]
    /\ IF variant[r] \in GitlabVariants
       THEN /\ results' = [results EXCEPT ![r] = <<result>>]
            /\ pc' = [pc EXCEPT ![r] = "report"]
            /\ UNCHANGED <<idx, successCount, failCount>>
       ELSE /\ results' = [results EXCEPT ![r] = Append(@, result)]
            /\ successCount' = [successCount EXCEPT ![r] =
                   IF result.Success THEN @ + 1 ELSE @]
            /\ failCount' = [failCount EXCEPT ![r] =
                   IF result.Success THEN @ ELSE @ + 1]
            /\ idx' = [idx EXCEPT ![r] =
                   IF result.Success THEN @ + 1 ELSE Len(databases[r]) + 1]
            /\ pc' = [pc EXCEPT ![r] = "loop"]
    /\ UNCHANGED <<envVars, flock, ctxDone, lockErr, unlockCalls, databases,
                   report, ret>>

\* the loop body without its append: a failed target leaves no result
Collect_DropsFailed(r, result) ==
    /\ art' = [art EXCEPT ![r] = 0]
    /\ IF variant[r] \in GitlabVariants
       THEN /\ results' = [results EXCEPT ![r] = <<result>>]
            /\ pc' = [pc EXCEPT ![r] = "report"]
            /\ UNCHANGED <<idx, successCount, failCount>>
       ELSE /\ results' = [results EXCEPT ![r] =
                   IF result.Success THEN Append(@, result) ELSE @]
            /\ successCount' = [successCount EXCEPT ![r] =
                   IF result.Success THEN @ + 1 ELSE @]
            /\ failCount' = [failCount EXCEPT ![r] =
                   IF result.Success THEN @ ELSE @ + 1]
            /\ idx' = [idx EXCEPT ![r] = @ + 1]
            /\ pc' = [pc EXCEPT ![r] = "loop"]
    /\ UNCHANGED <<envVars, flock, ctxDone, lockErr, unlockCalls, databases,
                   report, ret>>

\* the loop body after backupDatabase returned: count, append, next target;
\* the gitlab run has one target and goes on to its report
Collect(r, result) ==
    /\ art' = [art EXCEPT ![r] = 0]
    /\ IF variant[r] \in GitlabVariants
       THEN /\ results' = [results EXCEPT ![r] = <<result>>]
            /\ pc' = [pc EXCEPT ![r] = "report"]
            /\ UNCHANGED <<idx, successCount, failCount>>
       ELSE /\ results' = [results EXCEPT ![r] = Append(@, result)]
            /\ successCount' = [successCount EXCEPT ![r] =
                   IF result.Success THEN @ + 1 ELSE @]
            /\ failCount' = [failCount EXCEPT ![r] =
                   IF result.Success THEN @ ELSE @ + 1]
            /\ idx' = [idx EXCEPT ![r] = @ + 1]
            /\ pc' = [pc EXCEPT ![r] = "loop"]
    /\ UNCHANGED <<envVars, flock, ctxDone, lockErr, unlockCalls, databases,
                   report, ret>>

\* the name as the sequence of its parts around "_"
Chars(dbName) ==
    CASE dbName = "app_db" -> <<"app", "_", "db">>
      [] dbName = "logs_db" -> <<"logs", "_", "db">>
      [] OTHER -> <<dbName>>

\* time.Time.Format("20060102_150405"): the date, "_", the time of day; the
\* hours of a behaviour are those of one day
Format(t) == <<"20261102", "_", t>>

\* the name written where the file name carries no target name
DumpDirName_NoTarget(dbName, timestamp) == timestamp

\* fmt.Sprintf("%s_%s", dbName, timestamp)
DumpDirName(dbName, timestamp) == Chars(dbName) \o <<"_">> \o timestamp

\* the head of backupDatabase / Manager.backupOne: the staging path (a
\* directory; Manager: a .sql file) and the archive's path, both under the
\* temporary directory.  Worker.Backup formats the time it took before its
\* loop, the other handlers the time of the target's start.
StagingPaths(r, dbName) ==
    LET timestamp == Format(IF variant[r] = "dump" THEN timeNow[r] ELSE now)
    IN  [Database |-> dbName,
         dumpDir |-> DumpDirName(dbName, timestamp)
                         \o (IF variant[r] = "workflow" THEN <<".sql">>
                             ELSE <<>>),
         localZipPath |-> DumpDirName(dbName, timestamp) \o <<".zip">>]

\* "for _, dbName := range databases": skip an excluded name, start the
\* pipeline of any other (with the paths of its own staging files), leave
\* the loop after the last
Loop(r) ==
    /\ pc[r] = "loop"
    /\ IF idx[r] > Len(databases[r])
       THEN /\ pc' = [pc EXCEPT ![r] = "retention"]
            /\ UNCHANGED <<idx, stages, staged, paths>>
       ELSE IF shouldExcludeDB(databases[r][idx[r]])
       THEN /\ idx' = [idx EXCEPT ![r] = @ + 1]
            /\ UNCHANGED <<pc, stages, staged, paths>>
       ELSE /\ pc' = [pc EXCEPT ![r] = "dump"]
            /\ stages' = [stages EXCEPT ![r] = <<>>]
            /\ staged' = [staged EXCEPT ![r] = NoFiles]
            /\ paths' = [paths EXCEPT ![r] =
                   Append(@, StagingPaths(r, databases[r][idx[r]]))]
            /\ UNCHANGED idx
    /\ UNCHANGED <<envVars, storeVars, dumpOpts, timeNow, remoteBackupPath,
                   rec, flock, ctxDone, lockErr, unlockCalls, databases, art, results, successCount,
                   failCount, report, calls, ret>>

\* the command line of the zip process: helper.ZipEncryptFolder puts
\* "-P <password>" first only for a non-empty password; Manager.zipEncrypt
\* and Manager.zipEncryptFolder always pass "-P" and the password
ZipArgs(r) ==
    IF variant[r] = "workflow"
    THEN <<"-P", cfg.Password, "-j", "dstPath", "srcPath">>
    ELSE IF variant[r] = "backupgitlab"
    THEN <<"-P", cfg.Password, "-r", "-j", "dstPath", "srcDir">>
    ELSE (IF cfg.Password # "" THEN <<"-P", cfg.Password>> ELSE <<>>)
             \o <<"-r", "-j", "dstPath", "srcDir">>

\* the stage has been invoked for the target in progress, with this outcome
\* and, for the archive stage, with these arguments of its process
Stage(r, stage, ok) ==
    [stages EXCEPT ![r] =
         Append(@, [stage |-> stage, ok |-> ok,
                    args |-> IF stage = "archive" THEN ZipArgs(r) ELSE <<>>])]

\* whether the pipeline defers the removal of a staging file it created:
\* the Workers "if w.cfg.Backup.DeleteAfterUpload", the Manager always
Deferring(r) == variant[r] \in WorkflowVariants \/ cfg.DeleteAfterUpload

\* the path exists from now on; its removal is deferred or not
Create(files, path, deferring) ==
    [created |-> files.created \cup {path},
     deferred |-> files.deferred \cup (IF deferring THEN {path} ELSE {}),
     removed |-> files.removed]

\* the deferred os.RemoveAll / os.Remove calls, which run when the function
\* that deferred them returns: backupDatabase and gitlab Worker.backup with
\* their BackupResult, Manager.BackupGitLab only after its report
RunDeferred(r, files) ==
    IF variant[r] = "backupgitlab" THEN files
    ELSE [files EXCEPT !.removed = files.deferred]

\* the pipeline returns its BackupResult after the stage, leaving the
\* staging files "files"; the loop collects the result
Finish(r, stage, ok, result, files) ==
    /\ stages' = Stage(r, stage, ok)
    /\ staged' = [staged EXCEPT ![r] = RunDeferred(r, files)]
    /\ remoteBackupPath' = [remoteBackupPath EXCEPT ![r] = Nil]
    /\ Collect(r, result)
    /\ UNCHANGED <<dumpOpts, timeNow, paths, rec>>

\* a stage of the pipeline failed after the collaborator call "what" (Nil:
\* none): backupDatabase and gitlab Worker.backup return a failed
\* BackupResult, which the loop collects; Manager.BackupGitLab returns the
\* error, which ends runWorkflow in log.Fatalf
StageFailed(r, stage, what, err, files) ==
    IF variant[r] = "backupgitlab"
    THEN Fatalf(r, Err("Backup workflow failed: %v", 0, err))
    ELSE /\ calls' = IF what = Nil THEN calls ELSE Called(r, what)
         /\ Finish(r, stage, FALSE, Failed(CurDb(r), err), files)
         /\ UNCHANGED storeVars

\* the table names of the catalog that "table_name LIKE p%" selects
LikePrefix(p) ==
    {t \in tables : Len(p) <= Len(t) /\ SubSeq(t, 1, Len(p)) = p}

\* the script of buildDumpOptions, as mysqlsh runs it for one schema: the
\* configured names and the names the prefixes select at that moment, each
\* qualified by the schema; an empty list sets no option.  Manager.dump
\* passes no table option.
buildDumpOptions(r, dbName) ==
    LET filters == IF variant[r] = "workflow" THEN NoFilters
                   ELSE cfg.TableFilters
        Selected(prefixes) == UNION {LikePrefix(p) : p \in prefixes}
        Qualified(names) == {<<dbName, t>> : t \in names}
    IN  [includeTables |->
             Qualified(filters.Include \cup Selected(filters.IncludePrefix)),
         excludeTables |->
             Qualified(filters.Exclude \cup Selected(filters.ExcludePrefix))]

\* util.dumpSchemas([db], path, opts): the tables of the schema that are
\* written; opts.includeTables, when set, restricts them, and
\* opts.excludeTables removes from them
dumpSchemas(dbName, opts) ==
    LET all == {<<dbName, t>> : t \in tables}
    IN  (IF opts.includeTables = {} THEN all
         ELSE all \cap opts.includeTables) \ opts.excludeTables

\* what the script of buildDumpOptions did for one schema: the options it
\* computed and the tables util.dumpSchemas wrote under them
RunDumpScript(r, dbName) ==
    LET opts == buildDumpOptions(r, dbName)
    IN  [includeTables |-> opts.includeTables,
         excludeTables |-> opts.excludeTables,
         dumped |-> dumpSchemas(dbName, opts)]

\* Worker.dump / Manager.dump: os.MkdirAll, then mysqlsh util.dumpSchemas;
\* the removal of the directory is deferred only after dump returned nil
Dump(r) ==
    /\ pc[r] = "dump"
    /\ \/ StageFailed(r, "dump", Nil, "mkdir", staged[r])
       \/ \E ok \in CtxCall(r) :
              IF ok
              THEN /\ calls' = Called(r, "dump")
                   /\ pc' = [pc EXCEPT ![r] = "archive"]
                   /\ stages' = Stage(r, "dump", TRUE)
                   /\ staged' = [staged EXCEPT ![r] =
                          Create(@, "dir", Deferring(r))]
                   /\ dumpOpts' = [dumpOpts EXCEPT ![r] =
                          Append(@, RunDumpScript(r, CurDb(r)))]
                   /\ UNCHANGED <<envVars, storeVars, moreVars, flock,
                                  ctxDone, lockErr, unlockCalls, loopVars,
                                  report, ret>>
              ELSE StageFailed(r, "dump", "dump", "mysqlsh dump failed: %w",
                               Create(staged[r], "dir", FALSE))

\* helper.ZipEncryptFolder / Manager.zipEncrypt: the zip process; a zip that
\* exits with status 0 has written a non-empty archive, one that fails has
\* left none under the archive's path
Archive(r) ==
    /\ pc[r] = "archive"
    /\ \E ok \in CtxCall(r) :
        IF ok
        THEN \E size \in 1..MaxSize :
             /\ calls' = Called(r, "archive")
             /\ art' = [art EXCEPT ![r] = size]
             /\ pc' = [pc EXCEPT ![r] = "hash"]
             /\ stages' = Stage(r, "archive", TRUE)
             /\ staged' = [staged EXCEPT ![r] =
                    Create(@, "zip", Deferring(r))]
             /\ UNCHANGED <<envVars, storeVars, dumpOpts, moreVars, flock, ctxDone,
                            lockErr, unlockCalls, databases, idx, results,
                            successCount, failCount, report, ret>>
        ELSE StageFailed(r, "archive", "archive", "zip encryption failed: %w",
                         staged[r])

\* the hash stage with its "if err != nil" return dropped: the pipeline
\* goes on to publish the archive it could not read
Hash_IgnoresErr(r) ==
    /\ pc[r] = "hash"
    /\ \E ok \in BOOLEAN :
        /\ calls' = Called(r, "hash")
        /\ pc' = [pc EXCEPT ![r] = "publish"]
        /\ stages' = Stage(r, "hash", ok)
        /\ UNCHANGED <<envVars, storeVars, staged, dumpOpts, moreVars, flock, ctxDone,
                       lockErr, unlockCalls, loopVars, report, ret>>

\* the hash stage with a second zip run after a hash that failed once
Hash_ArchivesAgain(r) ==
    /\ pc[r] = "hash"
    /\ \E ok \in BOOLEAN :
        IF ok
        THEN /\ calls' = Called(r, "hash")
             /\ pc' = [pc EXCEPT ![r] = "publish"]
             /\ stages' = Stage(r, "hash", TRUE)
             /\ UNCHANGED <<envVars, storeVars, staged, dumpOpts, moreVars, flock,
                            ctxDone, lockErr, unlockCalls, loopVars, report,
                            ret>>
        ELSE IF Len(stages[r]) < 3
        THEN /\ calls' = Called(r, "archive")
             /\ pc' = [pc EXCEPT ![r] = "hash"]
             /\ stages' = Stage(r, "archive", TRUE)
             /\ UNCHANGED <<envVars, storeVars, staged, dumpOpts, moreVars, flock,
                            ctxDone, lockErr, unlockCalls, loopVars, report,
                            ret>>
        ELSE StageFailed(r, "hash", "hash", "hash calc failed: %w", staged[r])

\* helper.CalculateSHA256: open and read the archive
Hash(r) ==
    /\ pc[r] = "hash"
    /\ \E ok \in BOOLEAN :
        IF ok
        THEN /\ calls' = Called(r, "hash")
             /\ pc' = [pc EXCEPT ![r] = "publish"]
             /\ stages' = Stage(r, "hash", TRUE)
             /\ UNCHANGED <<envVars, storeVars, staged, dumpOpts, moreVars, flock,
                            ctxDone, lockErr, unlockCalls, loopVars, report,
                            ret>>
        ELSE StageFailed(r, "hash", "hash", "hash calc failed: %w", staged[r])

\* the object Storage.Upload puts into the bucket: its key is the archive's
\* file name, its age in hours is that of an object just written
Object(r, dbName) == [key |-> <<r, dbName, idx[r]>>, age |-> 0]

\* Storage.Upload returning nil without having put the object
Upload_Dropped(r, ok) ==
    /\ bucket' = bucket
    /\ UNCHANGED <<retentionLog, notifyErr>>

\* Storage.Upload: PutObject under the run's context
Upload(r, ok) ==
    /\ bucket' = IF ok THEN bucket \cup {Object(r, CurDb(r))} ELSE bucket
    /\ UNCHANGED <<retentionLog, notifyErr>>

\* the publish mode chosen anew for every target: odd ones are copied
PublishMode_PerTarget(r) == IF idx[r] % 2 = 1 THEN "copy" ELSE "upload"

\* "if w.onlyDump": the flag NewWorker stored when the run started decides
\* between the copy to local_backups and the upload
PublishMode(r) == IF onlyDump[r] THEN "copy" ELSE "upload"

\* the publish step was invoked, in the mode of the run
Published(r) ==
    [calls EXCEPT ![r].publish = @ + 1, ![r][PublishMode(r)] = @ + 1]

\* backupDatabase, "if w.onlyDump": the local copy or the upload, and the
\* BackupResult the function returns
Publish(r) ==
    /\ pc[r] = "publish"
    /\ LET size == art[r]
           hash == SHA256Hex(art[r])
       IN  IF variant[r] \in GitlabVariants
           THEN IF PublishMode(r) = "copy"
                THEN /\ calls' = Published(r)
                     /\ UNCHANGED storeVars
                     /\ \E uploadErr \in {Nil, "copy"} :
                         Finish(r, "publish", uploadErr = Nil,
                                Uploaded("gitlab", size, hash, uploadErr),
                                staged[r])
                ELSE \/ StageFailed(r, "publish", Nil, "open file failed: %w",
                                    staged[r])
                     \/ /\ calls' = Published(r)
                        /\ \E ok \in CtxCall(r) :
                            /\ Upload(r, ok)
                            /\ Finish(r, "publish", ok,
                                   Uploaded("gitlab", size, hash,
                                       IF ok THEN Nil
                                       ELSE "failed to upload object %s: %w"),
                                   staged[r])
           ELSE IF PublishMode(r) = "copy"
                THEN \/ StageFailed(r, "publish", Nil,
                                    "failed to create local backup dir: %w",
                                    staged[r])
                     \/ /\ calls' = Published(r)
                        /\ UNCHANGED storeVars
                        /\ \E ok \in BOOLEAN :
                            Finish(r, "publish", ok,
                                   IF ok
                                   THEN Succeeded(CurDb(r), size, hash)
                                   ELSE Failed(CurDb(r),
                                            "failed to save local backup: %w"),
                                   staged[r])
                ELSE \/ StageFailed(r, "publish", Nil, "open file failed: %w",
                                    staged[r])
                     \/ /\ calls' = Published(r)
                        /\ \E ok \in CtxCall(r) :
                            /\ Upload(r, ok)
                            /\ Finish(r, "publish", ok,
                                   IF ok
                                   THEN Succeeded(CurDb(r), size, hash)
                                   ELSE Failed(CurDb(r), "upload failed: %w"),
                                   staged[r])


(***************************************************************************)
(* The container target: gitlab Worker.backup and Manager.BackupGitLab     *)
(* before their archive step.  Their dump stage is the rake task, the      *)
(* search for its file and the copy out of the container.                  *)
(***************************************************************************)
\* os.MkdirAll(tempDir), and the deferred removal of the directory
GitlabMkdir(r) ==
    /\ pc[r] = "g_mkdir"
    /\ \E ok \in BOOLEAN :
        IF ok
        THEN /\ pc' = [pc EXCEPT ![r] = "g_rake"]
             /\ staged' = [staged EXCEPT ![r] =
                    Create(@, "dir", Deferring(r))]
             /\ UNCHANGED <<envVars, storeVars, stages, dumpOpts, moreVars, flock,
                            ctxDone, lockErr, unlockCalls, loopVars, report,
                            calls, ret>>
        ELSE StageFailed(r, "dump", Nil, "failed to create temp dir: %w",
                         staged[r])

\* docker exec <container> gitlab-rake gitlab:backup:create
GitlabRake(r) ==
    /\ pc[r] = "g_rake"
    /\ \E ok \in CtxCall(r) :
        IF ok
        THEN /\ calls' = Called(r, "dump")
             /\ pc' = [pc EXCEPT ![r] = "g_find"]
             /\ UNCHANGED <<envVars, storeVars, pipeVars, flock, ctxDone, lockErr,
                            unlockCalls, loopVars, report, ret>>
        ELSE StageFailed(r, "dump", "dump",
                         "gitlab-rake failed: %w, output: %s", staged[r])

\* what "ls -t ... | head -1" prints, already trimmed by strings.TrimSpace
FindOutputs == {"", "/var/opt/gitlab/backups/1_gitlab_backup.tar"}

\* filepath.Clean: the shortest equivalent path; Clean("") is "."
Clean(path) == IF path = "" THEN "." ELSE path

\* locate the most recent backup file inside the container
GitlabFind(r) ==
    /\ pc[r] = "g_find"
    /\ \E ok \in CtxCall(r) :
        IF ok
        THEN \E findOutput \in FindOutputs :
             LET remoteBackupPath_ == Clean(findOutput)
             IN  IF remoteBackupPath_ = ""
                 THEN StageFailed(r, "dump", Nil,
                          "no backup file found in container", staged[r])
                 ELSE /\ pc' = [pc EXCEPT ![r] = "g_cp"]
                      /\ remoteBackupPath' =
                             [remoteBackupPath EXCEPT ![r] = remoteBackupPath_]
                      /\ UNCHANGED <<envVars, storeVars, stages, staged,
                                     dumpOpts, timeNow, paths, rec, flock,
                                     ctxDone, lockErr, unlockCalls, loopVars,
                                     report, calls, ret>>
        ELSE StageFailed(r, "dump", Nil,
                 "failed to find backup file in container: %w, output: %s",
                 staged[r])

\* docker cp of the backup file; the copies of gitlab.rb and
\* gitlab-secrets.json that follow only log a warning when they fail
GitlabCopy(r) ==
    /\ pc[r] = "g_cp"
    /\ \E ok \in CtxCall(r) :
        IF ok
        THEN /\ pc' = [pc EXCEPT ![r] = "archive"]
             /\ stages' = Stage(r, "dump", TRUE)
             /\ UNCHANGED <<envVars, storeVars, staged, dumpOpts, moreVars, flock,
                            ctxDone, lockErr, unlockCalls, loopVars, report,
                            calls, ret>>
        ELSE StageFailed(r, "dump", Nil,
                 "failed to copy backup file: %w, output: %s", staged[r])

(***************************************************************************)
(* After the targets: retention, report, return.                           *)
(***************************************************************************)
\* LoadConfig's default: a retention of 0 hours in the file becomes a week
RetentionHours(configured) ==
    IF configured = 0 THEN DefaultRetentionHours ELSE configured

\* object.LastModified.Before(deadline) written as "not After": an object
\* last modified exactly at the deadline counts as expired
Expired_AtDeadline(object, retentionHours) == object.age >= retentionHours

\* object.LastModified.Before(deadline), deadline = now - retentionHours:
\* the object is older than retentionHours
Expired(object, retentionHours) == object.age > retentionHours

\* EnforceRetention without its "if retentionHours <= 0" return
EnforceRetention_NoGuard(r, retentionHours) ==
    /\ calls' = [calls EXCEPT ![r].retention = @ + 1,
                              ![r].listobjects = @ + 1]
    /\ \E listed \in (IF ctxDone[r] THEN {{}} ELSE SUBSET bucket) :
       LET expired == {o \in listed : Expired(o, retentionHours)}
       IN  \E failed \in (IF ctxDone[r] THEN {expired} ELSE SUBSET expired) :
           /\ bucket' = bucket \ (expired \ failed)
           /\ retentionLog' = [retentionLog EXCEPT ![r] =
                  Enforced(listed, listed # bucket, expired, failed)]

\* EnforceRetention with "break" in place of "continue" after a removal
\* that failed: the objects after it in the listing are not tried
EnforceRetention_StopsAtFailure(r, retentionHours) ==
    IF retentionHours <= 0
    THEN /\ calls' = Called(r, "retention")
         /\ retentionLog' = [retentionLog EXCEPT ![r] = NotEnforced]
         /\ UNCHANGED bucket
    ELSE /\ calls' = [calls EXCEPT ![r].retention = @ + 1,
                                   ![r].listobjects = @ + 1]
         /\ \E listed \in (IF ctxDone[r] THEN {{}} ELSE SUBSET bucket) :
            LET expired == {o \in listed : Expired(o, retentionHours)}
            IN  \E failed \in (IF ctxDone[r] THEN {expired}
                               ELSE SUBSET expired) :
                LET tried == IF failed = {} THEN expired ELSE failed
                IN  /\ bucket' = bucket \ (tried \ failed)
                    /\ retentionLog' = [retentionLog EXCEPT ![r] =
                           Enforced(listed, listed # bucket, tried, failed)]

\* Storage.EnforceRetention: nothing for retentionHours <= 0; otherwise
\* every object the listing delivers is removed if it is expired; a listing
\* error and a failed removal are logged and skipped; the call returns nil
EnforceRetention(r, retentionHours) ==
    IF retentionHours <= 0
    THEN /\ calls' = Called(r, "retention")
         /\ retentionLog' = [retentionLog EXCEPT ![r] = NotEnforced]
         /\ UNCHANGED bucket
    ELSE /\ calls' = [calls EXCEPT ![r].retention = @ + 1,
                                   ![r].listobjects = @ + 1]
         /\ \E listed \in (IF ctxDone[r] THEN {{}} ELSE SUBSET bucket) :
            LET expired == {o \in listed : Expired(o, retentionHours)}
            IN  \E failed \in (IF ctxDone[r] THEN {expired}
                               ELSE SUBSET expired) :
                /\ bucket' = bucket \ (expired \ failed)
                /\ retentionLog' = [retentionLog EXCEPT ![r] =
                       Enforced(listed, listed # bucket, expired, failed)]

\* the handler with unlock() called after the target loop, before retention
Retention_AfterUnlock(r) ==
    /\ pc[r] = "retention"
    /\ pc' = [pc EXCEPT ![r] = "report"]
    /\ EnforceRetention(r, RetentionHours(cfg.Retention))
    /\ flock' = Unlock(r)
    /\ UNCHANGED <<envVars, notifyErr, pipeVars, ctxDone, lockErr,
                   unlockCalls, loopVars, report, ret>>

\* "if err := w.store.EnforceRetention(ctx, w.cfg.Retention.Hours)" after
\* the target loop of Worker.Backup, Worker.Run and Manager.Run: an error
\* would only be logged
Retention(r) ==
    /\ pc[r] = "retention"
    /\ pc' = [pc EXCEPT ![r] = "report"]
    /\ EnforceRetention(r, RetentionHours(cfg.Retention))
    /\ UNCHANGED <<envVars, notifyErr, pipeVars, flock, ctxDone, lockErr,
                   unlockCalls, loopVars, report, ret>>

\* the report's result lines: one per result, a success or a failure line
ReportLines(res) ==
    [i \in 1..Len(res) |-> [Database |-> res[i].Database, ok |-> res[i].Success]]

\* what TelegramSender.Send returns: nil when no bot is configured,
\* otherwise nil or the error of the HTTP request or of its status
SendErrors ==
    IF ~cfg.Telegram THEN {Nil}
    ELSE {Nil, "failed to send telegram message: %w",
          "telegram api returned non-200 status: %d"}

\* helper.SendReport / Manager.sendReport; the gitlab runs pass the counts
\* 1 and 0; the notifier's error is logged
SendReport(r) ==
    /\ pc[r] = "report"
    /\ pc' = [pc EXCEPT ![r] = "return"]
    /\ calls' = Called(r, "report")
    /\ report' = [report EXCEPT ![r] =
           [Total |-> Len(results[r]),
            Success |-> IF variant[r] \in GitlabVariants THEN 1
                        ELSE successCount[r],
            Fail |-> IF variant[r] \in GitlabVariants THEN 0 ELSE failCount[r],
            lines |-> ReportLines(results[r])]]
    /\ \E sendErr \in SendErrors :
           notifyErr' = [notifyErr EXCEPT ![r] = sendErr]
    /\ UNCHANGED <<envVars, bucket, retentionLog, pipeVars, flock, ctxDone,
                   lockErr, unlockCalls, loopVars, ret>>

\* the last return with the retention's errors propagated: a listing error
\* or a failed removal fails the run
Return_FailsOnRetentionError(r) ==
    /\ pc[r] = "return"
    /\ IF retentionLog[r].listErr \/ retentionLog[r].failed # {}
       THEN ReturnErr(r, Err("retention failed: %w", 0, Nil), 1)
       ELSE IF variant[r] \in GitlabVariants
       THEN ReturnErr(r, IF results[r][1].Success THEN Ok
                         ELSE Err("GitLab backup failed: %v", 0,
                                  results[r][1].Error), 1)
       ELSE ReturnErr(r, IF failCount[r] = 0 THEN Ok
                         ELSE Err("backup completed with %d failures",
                                  failCount[r], Nil), 1)

\* the last return with the notifier's error propagated: a report that
\* could not be sent fails the run
Return_FailsOnSendError(r) ==
    /\ pc[r] = "return"
    /\ IF notifyErr[r] # Nil
       THEN ReturnErr(r, Err("failed to send report: %w", 0, notifyErr[r]), 1)
       ELSE IF variant[r] \in GitlabVariants
       THEN ReturnErr(r, IF results[r][1].Success THEN Ok
                         ELSE Err("GitLab backup failed: %v", 0,
                                  results[r][1].Error), 1)
       ELSE ReturnErr(r, IF failCount[r] = 0 THEN Ok
                         ELSE Err("backup completed with %d failures",
                                  failCount[r], Nil), 1)

\* the last return without its "if failCount > 0"
Return_IgnoresFailures(r) ==
    /\ pc[r] = "return"
    /\ ReturnErr(r, Ok, 1)

\* the handler's last return, under "defer unlock()"; the error of
\* Manager.Run or Manager.BackupGitLab ends runWorkflow in log.Fatalf
Return(r) ==
    /\ pc[r] = "return"
    /\ IF variant[r] = "gitlab"
       THEN IF ~results[r][1].Success
            THEN ReturnErr(r, Err("GitLab backup failed: %v", 0,
                                  results[r][1].Error), 1)
            ELSE ReturnErr(r, Ok, 1)
       ELSE IF variant[r] = "backupgitlab"
       THEN IF results[r][1].Error # Nil
            THEN Fatalf(r, Err("Backup workflow failed: %v", 0,
                               results[r][1].Error))
            ELSE ReturnErr(r, Ok, 1)
       ELSE IF failCount[r] > 0
       THEN IF variant[r] = "workflow"
            THEN Fatalf(r, Err("Backup workflow failed: %v", failCount[r],
                               "backup completed with %d failures"))
            ELSE ReturnErr(r, Err("backup completed with %d failures",
                                  failCount[r], Nil), 1)
       ELSE ReturnErr(r, Ok, 1)

(***************************************************************************)
(* The database server's other clients.                                    *)
(***************************************************************************)
\* a client creates a table (in every schema) while the program may be
\* running; only the prefix filters of the configuration read the table
\* catalog, so the change is followed where they are configured
CreateTable ==
    /\ cfg.TableFilters.IncludePrefix \cup cfg.TableFilters.ExcludePrefix # {}
    /\ \E t \in TableNames \ tables : tables' = tables \cup {t}
    /\ UNCHANGED <<cfg, catalog, variant, onlyDump, now, storeVars, pipeVars,
                   flock, pc, ctxDone, lockErr, unlockCalls, loopVars, report,
                   calls, ret>>

\* the positions at which a run waits for a process or a transfer that
\* may take hours: the dump, the zip, the upload or copy, the rake task
LongSteps == {"dump", "archive", "publish", "g_rake"}

\* an hour passes while a run waits: every object of the bucket is an hour
\* older
Tick ==
    /\ now < MaxRunHours
    /\ \E r \in Runs : pc[r] \in LongSteps
    /\ now' = now + 1
    /\ bucket' = {[o EXCEPT !.age = @ + 1] : o \in bucket}
    /\ UNCHANGED <<cfg, catalog, tables, variant, onlyDump, retentionLog,
                   notifyErr, pipeVars, flock, pc, ctxDone, lockErr,
                   unlockCalls, loopVars, report, calls, ret>>

(***************************************************************************)
(* Worker.Recover, the handler of "mysql recover --input <path>", after    *)
(* prepare.                                                                *)
(***************************************************************************)
\* what os.Stat finds at inputPath: nothing (an error), a directory, a
\* regular file whose name ends in ".zip", another regular file
InputKinds == {"missing", "dir", "zip", "file"}

\* outcomes of os.Stat(filepath.Join(dir, "@.json")): the file is there,
\* ENOENT, or another error (EACCES on dir, ENOTDIR when dir is a file)
StatOutcomes == {"found", "notexist", "other"}

\* os.IsNotExist(err): true for ENOENT only
IsNotExist(outcome) == outcome = "notexist"

\* the arguments of the unzip process: "-P <password>" first for a
\* non-empty password
UnzipArgs ==
    (IF cfg.Password # "" THEN <<"-P", cfg.Password>> ELSE <<>>)
        \o <<"-o", "inputPath", "-d", "tempRestoreDir">>

\* the locals that stay untouched while Recover works
RecoverFrame ==
    UNCHANGED <<envVars, storeVars, stages, staged, dumpOpts, timeNow, paths,
                remoteBackupPath, flock, ctxDone, lockErr, unlockCalls,
                loopVars, report, calls, ret>>

\* os.Stat(inputPath); dumpDir := inputPath; isZip
RecoverStat(r) ==
    /\ pc[r] = "r_stat"
    /\ \E input \in InputKinds :
        IF input = "missing"
        THEN ReturnErr(r, Err("failed to access input path: %w", 0, Nil), 1)
        ELSE /\ rec' = [rec EXCEPT ![r] =
                    [NoRecover EXCEPT !.input = input,
                                      !.dumpDir = "inputPath"]]
             /\ pc' = [pc EXCEPT ![r] =
                    IF input = "zip" THEN "r_unzip" ELSE "r_meta"]
             /\ RecoverFrame

\* "if isZip": the temporary directory, the unzip process, and the search
\* for @.json in the root of the extraction, then in its subdirectories
RecoverUnzip(r) ==
    /\ pc[r] = "r_unzip"
    /\ \/ ReturnErr(r, Err("failed to create temp restore dir: %w", 0, Nil),
                    1)
       \/ \E ok \in CtxCall(r) :
              IF ~ok
              THEN ReturnErr(r, Err("unzip failed: %w, output: %s", 0, Nil), 1)
              ELSE \E root \in StatOutcomes, sub \in BOOLEAN :
                   /\ rec' = [rec EXCEPT ![r] =
                          [@ EXCEPT
                             !.unzipArgs = UnzipArgs,
                             !.dumpDir = IF IsNotExist(root) /\ sub
                                         THEN "subDir" ELSE "tempRestoreDir",
                             !.meta = IF IsNotExist(root) /\ sub
                                      THEN "found" ELSE root]]
                   /\ pc' = [pc EXCEPT ![r] = "r_meta"]
                   /\ RecoverFrame

\* the check of the dump metadata: "if _, err := os.Stat(dumpDir/@.json);
\* os.IsNotExist(err)" returns the error; the stat of an extraction repeats
\* what the search found, under a regular file it fails with ENOTDIR
RecoverMeta(r) ==
    /\ pc[r] = "r_meta"
    /\ \E outcome \in (IF rec[r].input = "zip" THEN {rec[r].meta}
                        ELSE IF rec[r].input = "file" THEN {"other"}
                        ELSE StatOutcomes) :
        IF IsNotExist(outcome)
        THEN ReturnErr(r, Err("dump metadata (@.json) not found in %s", 0,
                              Nil), 1)
        ELSE /\ rec' = [rec EXCEPT ![r].meta = outcome]
             /\ pc' = [pc EXCEPT ![r] = "r_load"]
             /\ RecoverFrame

\* mysqlsh --js -e util.loadDump(dumpDir, ...) under the run's context: a
\* cancelled context fails the command before the process starts
RecoverLoad(r) ==
    /\ pc[r] = "r_load"
    /\ \E ok \in CtxCall(r) :
        /\ rec' = [rec EXCEPT ![r].loadDump = ~ctxDone[r],
                              ![r].err = IF ok THEN Nil
                                  ELSE "mysqlsh recovery failed: %w, output: %s"]
        /\ pc' = [pc EXCEPT ![r] = "r_ret"]
        /\ RecoverFrame

\* Recover's last returns, under prepare's "defer unlock()"
RecoverReturn(r) ==
    /\ pc[r] = "r_ret"
    /\ ReturnErr(r, IF rec[r].err = Nil THEN Ok
                    ELSE Err(rec[r].err, 0, Nil), 1)

(***************************************************************************)
(* The specification.                                                      *)
(***************************************************************************)
Next ==
    \/ CreateTable
    \/ Tick
    \/ \E r \in Runs :
        \/ LoadConfig(r)
        \/ AcquireLock(r)
        \/ CheckLock(r)
        \/ InitGorm(r)
        \/ NewStorage(r)
        \/ Cancel(r)
        \/ ListDatabases(r)
        \/ Loop(r)
        \/ Dump(r)
        \/ Archive(r)
        \/ Hash(r)
        \/ Publish(r)
        \/ GitlabMkdir(r)
        \/ GitlabRake(r)
        \/ GitlabFind(r)
        \/ GitlabCopy(r)
        \/ Retention(r)
        \/ SendReport(r)
        \/ Return(r)
        \/ ProcessExit(r)

Spec == Init /\ [][Next]_vars

\* two invocations of "mysql recover" are about to start, with or without
\* a passphrase in the configuration
RecoverInit ==
    /\ cfg \in [Include : {<<>>}, Exclude : {<<>>}, Retention : {1},
                DeleteAfterUpload : {TRUE}, TableFilters : {NoFilters},
                Telegram : {FALSE}, Password : Passwords]
    /\ catalog = <<>>
    /\ tables = InitialTables
    /\ variant = [r \in Runs |-> "recover"]
    /\ onlyDump = [r \in Runs |-> FALSE]
    /\ bucket = {}
    /\ now = MaxRunHours
    /\ InitRun(Runs)

RecoverNext ==
    \E r \in Runs :
        \/ LoadConfig(r)
        \/ AcquireLock(r)
        \/ CheckLock(r)
        \/ NewStorage(r)
        \/ Cancel(r)
        \/ RecoverStat(r)
        \/ RecoverUnzip(r)
        \/ RecoverMeta(r)
        \/ RecoverLoad(r)
        \/ RecoverReturn(r)
        \/ ProcessExit(r)

RecoverSpec == RecoverInit /\ [][RecoverNext]_vars


(***************************************************************************)
(* Properties.                                                             *)
(***************************************************************************)
AlreadyLocked == "lock file %s is already locked"

Ended(r) == pc[r] \in {"returned", "exited"}

\* r holds a release function it has not yet invoked: it is past lock
\* acquisition and has not released
PastLock(r) == lockErr[r] = Nil /\ unlockCalls[r] = 0 /\ pc[r] # "exited"

\* C1: at any time at most one run is past lock acquisition on the lock
\* path, and a run that is holds the kernel lock.
C1_AtMostOneHolder ==
    /\ Cardinality({r \in Runs : PastLock(r)}) <= 1
    /\ \A r \in Runs : PastLock(r) => flock = r

\* a run works under the lock while the other was refused it
C1_Witness ==
    \E a, b \in Runs :
        /\ PastLock(a) /\ pc[a] = "publish"
        /\ lockErr[b] = AlreadyLocked

\* C2: AcquireLock never waits: whoever holds the lock, the call can return
\* without any filesystem error having occurred; and when another run holds
\* the lock it returns an error in that very step, leaving the lock alone.
C2_FailsImmediately ==
    /\ [](\A r \in Runs : pc[r] = "lock" =>
            ENABLED (AcquireLock(r) /\ lockErr'[r] \in {Nil, AlreadyLocked}))
    /\ [][\A r \in Runs :
            (pc[r] = "lock" /\ pc'[r] # "lock" /\ flock \notin {NoRun, r})
                => (pc'[r] = "lockret" /\ lockErr'[r] # Nil /\ flock' = flock)]_vars

\* AcquireLock has returned the contention error while the holder works
C2_Witness ==
    \E a, b \in Runs :
        /\ pc[b] = "lockret" /\ lockErr[b] = AlreadyLocked
        /\ flock = a /\ a # b

\* C3: every run that acquired the lock has invoked its release function,
\* once, when it has ended, whatever the exit path.
C3_ReleasedOnEveryExit ==
    \A r \in Runs : (Ended(r) /\ lockErr[r] = Nil) => unlockCalls[r] = 1

\* C4: a run whose lock acquisition failed does no work: it enumerates no
\* target, calls no collaborator, sends no report, and ends with a failure.
C4_NoWorkWithoutLock ==
    \A r \in Runs :
        lockErr[r] \notin {"unset", Nil} =>
            /\ pc[r] \in {"lockret", "returned", "exited"}
            /\ calls[r] = ZeroCalls
            /\ databases[r] = <<>> /\ results[r] = <<>> /\ report[r] = Nil
            /\ Ended(r) => ~ret[r].ok

\* a run refused the lock has returned the acquisition failure
C4_Witness ==
    \E r \in Runs :
        /\ pc[r] = "returned" /\ lockErr[r] = AlreadyLocked
        /\ ret[r].msg = "could not acquire lock: %w"


\* the loop of r is over: every target has been through its pipeline
AfterLoop(r) == pc[r] \in {"retention", "report", "return"}

\* the names of a result sequence, in order
Names(res) == [i \in 1..Len(res) |-> res[i].Database]

\* the failed results of a sequence
NumFailed(res) == Cardinality({i \in 1..Len(res) : ~res[i].Success})

\* the entries of the filtered list that the loop does not skip
Processed(r) ==
    SelectSeq(databases[r], LAMBDA dbName : ~shouldExcludeDB(dbName))

\* C5: in a run past discovery every target of the filtered list has its
\* result, and its line in the report, whatever the outcome of the targets
\* before it.
C5_EveryTargetProcessed ==
    \A r \in Runs :
        /\ (AfterLoop(r) /\ variant[r] \notin GitlabVariants) =>
               Names(results[r]) = Processed(r)
        /\ (AfterLoop(r) /\ variant[r] \in GitlabVariants) =>
               Names(results[r]) = <<"gitlab">>
        /\ pc[r] = "return" =>
               Names(report[r].lines) = Names(results[r])

\* the report went out with a target that succeeded after one that failed
C5_Witness ==
    \E r \in Runs :
        /\ pc[r] = "return" /\ Len(report[r].lines) = 2
        /\ ~results[r][1].Success /\ results[r][2].Success

CountMsg == "backup completed with %d failures"

C7_OneResultPerTarget ==
    \A r \in Runs :
        (AfterLoop(r) /\ variant[r] \notin GitlabVariants) =>
            /\ Names(results[r]) = Processed(r)
            /\ \A i, j \in 1..Len(results[r]) :
                   results[r][i].Database = results[r][j].Database => i = j
            /\ Names(results[r]) =
                   SelectSeq(catalog,
                             LAMBDA d : d \in Range(Names(results[r])))

\* C8: a result is a success iff its error is nil, its hash is non-empty
\* and its size is positive.
C8_SuccessIffComplete ==
    \A r \in Runs : \A i \in 1..Len(results[r]) :
        LET res == results[r][i]
        IN  res.Success <=>
                (res.Error = Nil /\ res.SHA256 # <<>> /\ res.Size > 0)

\* a container result whose upload failed after hashing: size and hash are
\* set, the error too
C8_Witness ==
    \E r \in Runs : \E i \in 1..Len(results[r]) :
        /\ results[r][i].Database = "gitlab"
        /\ ~results[r][i].Success
        /\ results[r][i].Size > 0 /\ results[r][i].SHA256 # <<>>

\* the names the policy of section 3 lets through
Allowed ==
    {d \in Range(catalog) :
        /\ d \notin Range(systemDBs)
        /\ d \notin Range(cfg.Exclude)
        /\ (Len(cfg.Include) > 0 => d \in Range(cfg.Include))}

\* C9: the set of targets processed is the enumerated names minus the
\* system names minus the excluded names, narrowed to the include list
\* when that list is non-empty.
C9_ProcessedSet ==
    \A r \in Runs :
        (AfterLoop(r) /\ variant[r] \notin GitlabVariants) =>
            Range(Names(results[r])) = Allowed

\* C10: with a non-empty include list every processed target is a member
\* of the include list.
C10_ProcessedWithinInclude ==
    \A r \in Runs :
        (variant[r] \notin GitlabVariants /\ Len(cfg.Include) > 0) =>
            \A i \in 1..Len(results[r]) :
                results[r][i].Database \in Range(cfg.Include)

\* r is inside the pipeline of a database target
InPipeline(r) ==
    /\ variant[r] \notin GitlabVariants
    /\ pc[r] \in {"dump", "archive", "hash", "publish"}

\* the database names r has processed or is processing
Touched(r) ==
    IF variant[r] \in GitlabVariants THEN {}
    ELSE Range(Names(results[r]))
             \cup (IF InPipeline(r) THEN {CurDb(r)} ELSE {})

\* C11: information_schema, performance_schema, mysql and sys are never
\* processed, whatever the include and exclude lists contain.
C11_SystemNamesNeverProcessed ==
    \A r \in Runs : Touched(r) \cap Range(systemDBs) = {}

\* the loop is over a list that held the system name mysql, which the
\* include list names too
C11_Witness ==
    \E r \in Runs :
        /\ AfterLoop(r) /\ variant[r] \notin GitlabVariants
        /\ InSeq("mysql", databases[r]) /\ InSeq("mysql", cfg.Include)

\* C12: a name that is in the include list and in the exclude list is
\* never processed.
C12_ExcludeWins ==
    \A r \in Runs :
        Touched(r) \cap (Range(cfg.Include) \cap Range(cfg.Exclude)) = {}

\* the loop is over a list that held a name both lists contain, and has
\* processed another target
C12_Witness ==
    \E r \in Runs : \E d \in Range(cfg.Include) \cap Range(cfg.Exclude) :
        /\ AfterLoop(r) /\ variant[r] \notin GitlabVariants
        /\ InSeq(d, databases[r]) /\ Len(results[r]) > 0

\* C13: the success and fail counts of a report equal the numbers of
\* success and of failure lines it carries, so they sum to its total.
C13_ReportCountsMatch ==
    \A r \in Runs :
        calls[r].report > 0 =>
            LET lines == report[r].lines
                ok == {i \in 1..Len(lines) : lines[i].ok}
            IN  /\ report[r].Success = Cardinality(ok)
                /\ report[r].Fail = Len(lines) - Cardinality(ok)
                /\ report[r].Success + report[r].Fail = report[r].Total

\* r is past target discovery: in the target loop, in a pipeline, or after
\* the targets (a container run has no discovery step of its own)
PastDiscovery(r) ==
    pc[r] \in {"loop", "dump", "archive", "hash", "publish", "retention",
               "report", "return", "g_mkdir", "g_rake", "g_find", "g_cp"}

\* C14: a run that got past discovery ends only after it has handed
\* exactly one report to the notifier, whatever the targets' outcomes.
C14_ExactlyOneReport ==
    /\ [](\A r \in Runs : calls[r].report <= 1)
    /\ [][\A r \in Runs :
            (PastDiscovery(r) /\ pc'[r] \in {"returned", "exited"})
                => calls[r].report = 1]_vars

\* the runs of Worker.Backup and of Worker.Run
WorkerVariants == {"dump", "run"}

\* C15: in a run of the database worker, a target whose pipeline ends
\* after the run's context was cancelled yields a failed BackupResult, and
\* a cancelled run past discovery ends only after retention enforcement
\* and the report, with the lock released.
C15_CancelledTargetFails ==
    [][\A r \in Runs :
        (variant[r] \in WorkerVariants /\ ctxDone[r]) =>
            /\ (InPipeline(r) /\ Len(results'[r]) = Len(results[r]) + 1)
                   => ~results'[r][Len(results'[r])].Success
            /\ (PastDiscovery(r) /\ pc'[r] \in {"returned", "exited"})
                   => /\ calls[r].retention = 1 /\ calls[r].report = 1
                      /\ unlockCalls'[r] = 1 /\ flock' # r]_vars

ListFailed == "failed to list databases: %w"

\* C16: nothing of a target pipeline runs before discovery, and when
\* discovery fails the run ends at once with a failure that names it: no
\* target was processed, and an ended run does nothing more.
C16_DiscoveryFailureIsFatal ==
    /\ [](\A r \in Runs : pc[r] = "list" =>
            (calls[r] = ZeroCalls /\ results[r] = <<>>))
    /\ [][\A r \in Runs :
            /\ (pc[r] = "list" /\ pc'[r] \notin {"list", "loop"}) =>
                   /\ pc'[r] \in {"returned", "exited"}
                   /\ ~ret'[r].ok
                   /\ ListFailed \in {ret'[r].msg, ret'[r].cause}
                   /\ calls'[r] = ZeroCalls /\ results'[r] = <<>>
            /\ Ended(r) => (pc'[r] \in {"returned", "exited"}
                            /\ calls'[r] = ZeroCalls)]_vars

\* a run has returned the discovery failure
C16_Witness ==
    \E r \in Runs :
        /\ pc[r] = "returned" /\ lockErr[r] = Nil
        /\ ret[r].msg = ListFailed

\* values of retentionHours that are not positive
NonPositiveHours == {-1, 0}

\* C17: a call of EnforceRetention with retentionHours <= 0 lists nothing,
\* removes nothing from the bucket, and returns nil: so does the call a run
\* makes, and so would a call with any non-positive value where a run
\* makes its call.
C17_NoRetentionWhenNotPositive ==
    /\ [](\A r \in Runs : \A h \in NonPositiveHours :
            pc[r] = "retention" =>
                /\ ENABLED EnforceRetention(r, h)
                /\ ~ENABLED (/\ EnforceRetention(r, h)
                             /\ \/ bucket' # bucket
                                \/ calls'[r].listobjects # calls[r].listobjects
                                \/ retentionLog'[r].err # Nil
                                \/ retentionLog'[r] # NotEnforced))
    /\ [][\A r \in Runs :
            (/\ pc[r] = "retention" /\ pc'[r] # "retention"
             /\ RetentionHours(cfg.Retention) <= 0) =>
                /\ bucket' = bucket
                /\ calls'[r].listobjects = calls[r].listobjects
                /\ calls'[r].retention = calls[r].retention + 1
                /\ retentionLog'[r] = NotEnforced
                /\ retentionLog'[r].err = Nil]_vars

\* EnforceRetention was called with a negative number of hours on a bucket
\* that holds old objects
C17_Witness ==
    \E r \in Runs :
        /\ pc[r] = "report" /\ calls[r].retention = 1
        /\ RetentionHours(cfg.Retention) <= 0
        /\ bucket = StoredObjects

\* C18: with retention hours 0 in the configuration no step of a run
\* removes an object from the bucket.
C18_ZeroDisablesRetention ==
    [][cfg.Retention = 0 => bucket \subseteq bucket']_vars

\* C19: with retentionHours > 0 a run removes an object only if it is
\* older than retentionHours; an object of age retentionHours or less
\* stays; and when no removal failed every listed object that is older is
\* gone.
C19_DeletesExactlyTheExpired ==
    [][\A r \in Runs :
        LET h == RetentionHours(cfg.Retention)
        IN  (h > 0 /\ pc[r] = "retention" /\ pc'[r] # "retention") =>
                /\ \A o \in bucket \ bucket' : o.age > h
                /\ \A o \in bucket : o.age <= h => o \in bucket'
                /\ retentionLog'[r].failed = {} =>
                       \A o \in retentionLog'[r].listed :
                           o.age > h => o \notin bucket']_vars

\* after an enforcement with an hour of retention, a complete listing and
\* no failed removal, the object an hour old is all that is left of the
\* stored objects
C19_Witness ==
    \E r \in Runs :
        /\ pc[r] = "report" /\ cfg.Retention = 1
        /\ retentionLog[r].listed = StoredObjects
        /\ retentionLog[r].failed = {}
        /\ bucket \cap StoredObjects = {o \in StoredObjects : o.age = 1}

\* C20: retention enforcement always hands the run on to its report with
\* the results untouched, and the run returns success exactly when no
\* target failed, whatever listing or removal errors the enforcement met.
C20_RetentionNeverFailsRun ==
    [][\A r \in Runs :
        /\ (pc[r] = "retention" /\ pc'[r] # "retention") =>
               /\ pc'[r] = "report"
               /\ results'[r] = results[r] /\ failCount'[r] = failCount[r]
               /\ retentionLog'[r].err = Nil
        /\ (pc[r] = "return" /\ pc'[r] # "return"
            /\ (retentionLog[r].listErr \/ retentionLog[r].failed # {})) =>
               (ret'[r].ok <=> NumFailed(results[r]) = 0)]_vars

\* a run has returned success although a removal failed during its
\* retention enforcement
C20_Witness ==
    \E r \in Runs :
        /\ pc[r] = "returned" /\ ret[r].ok
        /\ retentionLog[r].failed # {}

\* C21: a report the notifier could not deliver leaves the run's exit status
\* alone: the handler returns success exactly when none of its targets
\* failed, after a failed send as after a successful one.
C21_SendFailureKeepsExitStatus ==
    [][\A r \in Runs :
        (pc[r] = "return" /\ pc'[r] # "return") =>
            /\ notifyErr[r] # Nil =>
                   (ret'[r].ok <=> NumFailed(results[r]) = 0)
            /\ notifyErr[r] = Nil =>
                   (ret'[r].ok <=> NumFailed(results[r]) = 0)]_vars

\* a run whose report could not be sent has returned success
C21_Witness ==
    \E r \in Runs :
        /\ pc[r] = "returned"
        /\ notifyErr[r] # Nil
        /\ ret[r].ok

\* the stages of a target's pipeline, in their order
StageOrder == <<"dump", "archive", "hash", "publish">>

\* C22: the stages invoked for a target are, at any time, the first stages
\* of the order dump, archive, hash, publish, each of them invoked once:
\* none is repeated and none runs again after a later one.
C22_StagesInOrderOnce ==
    \A r \in Runs :
        /\ Len(stages[r]) <= Len(StageOrder)
        /\ \A i \in 1..Len(stages[r]) : stages[r][i].stage = StageOrder[i]

\* the publishing of a run's first target failed, its pipeline is over, and
\* the run has dumped and archived once
C22_Witness ==
    \E r \in Runs :
        /\ pc[r] = "loop"
        /\ Len(results[r]) = 1
        /\ Len(stages[r]) = 4 /\ ~stages[r][4].ok
        /\ calls[r].dump = 1 /\ calls[r].archive = 1

\* the positions of a handler inside a pipeline after its first stage
LaterStages == {"archive", "hash", "publish"}

\* C23: a failed stage is the last stage invoked for its target: every
\* stage before the last one invoked succeeded, and after a failed stage
\* the run is at no later stage of that target.
C23_NoStageAfterFailure ==
    \A r \in Runs :
        /\ \A i \in 1..(Len(stages[r]) - 1) : stages[r][i].ok
        /\ (Len(stages[r]) > 0 /\ ~stages[r][Len(stages[r])].ok) =>
               pc[r] \notin LaterStages

\* the archive stage of a target failed after its dump, and the target's
\* result is in
C23_Witness ==
    \E r \in Runs :
        /\ pc[r] \in {"loop", "report"}
        /\ Len(stages[r]) = 2
        /\ stages[r][1].ok /\ ~stages[r][2].ok
        /\ ~results[r][Len(results[r])].Success

\* the last target of r has returned its BackupResult to the loop, and no
\* later target has started
AfterTarget(r) ==
    /\ pc[r] \in {"loop", "retention", "report", "return"}
    /\ Len(results[r]) > 0

\* the staging files of that target which are on disk
OnDisk(r) == staged[r].created \ staged[r].removed

\* C24: with the delete-after-upload flag set, a target that failed has
\* left none of its staging files on disk once its BackupResult is returned.
C24_FailedTargetLeavesNothing ==
    \A r \in Runs :
        (/\ cfg.DeleteAfterUpload
         /\ variant[r] # "backupgitlab"
         /\ AfterTarget(r)
         /\ ~results[r][Len(results[r])].Success) => OnDisk(r) = {}

\* C25: a pipeline that returned removes nothing with the flag unset, and
\* one that returned after publishing has removed the staging directory
\* and the archive exactly if the flag is set.
C25_RemovedIffFlagSet ==
    \A r \in Runs :
        (variant[r] # "backupgitlab" /\ AfterTarget(r)) =>
            /\ ~cfg.DeleteAfterUpload => staged[r].removed = {}
            /\ Len(stages[r]) = Len(StageOrder) =>
                   (staged[r].removed = {"dir", "zip"} <=> cfg.DeleteAfterUpload)

\* the table names of a list of qualified names
Unqualified(list) == {q[2] : q \in list}

\* C26: the table lists the prefix filters resolve to are the same for
\* every target a run dumps, whatever happens to the catalog during the
\* run: they were resolved once, before the first dump.
C26_FiltersResolvedOncePerRun ==
    \A r \in Runs :
        \A i, j \in 1..Len(dumpOpts[r]) :
            /\ Unqualified(dumpOpts[r][i].includeTables)
                   = Unqualified(dumpOpts[r][j].includeTables)
            /\ Unqualified(dumpOpts[r][i].excludeTables)
                   = Unqualified(dumpOpts[r][j].excludeTables)

\* C27: a run past discovery, of a database or of the container, enforces
\* retention once: not before its last target has finished, and before its
\* report is sent.
C27_RetentionOncePerRun ==
    \A r \in Runs :
        /\ calls[r].retention <= 1
        /\ (PastDiscovery(r) /\ ~AfterLoop(r)) => calls[r].retention = 0
        /\ pc[r] \in {"report", "return"} => calls[r].retention = 1

\* r works under the lock: it enumerates its targets, processes them,
\* enforces retention or sends its report
Working(r) == pc[r] = "list" \/ (PastDiscovery(r) /\ pc[r] # "return")

\* C28: a run holds the lock, never having released it, from target
\* enumeration until its report is sent; no other run works meanwhile.
C28_LockHeldUntilReported ==
    \A r \in Runs :
        Working(r) =>
            /\ flock = r
            /\ unlockCalls[r] = 0
            /\ \A o \in Runs \ {r} : ~Working(o) /\ pc[o] # "storage"

\* a run is about to enforce retention under the lock and the other run
\* has just been refused the lock
C28_Witness ==
    \E a, b \in Runs :
        /\ pc[a] = "retention" /\ flock = a
        /\ pc[b] = "lockret" /\ lockErr[b] = AlreadyLocked

\* C29: enforcement tries the removal of every expired object of the
\* listing, whichever removals fail: an expired object is still in the
\* bucket afterwards only if its own removal failed.
C29_FailedRemovalDoesNotStopEnforcement ==
    [][\A r \in Runs :
        (/\ pc[r] = "retention" /\ pc'[r] = "report"
         /\ RetentionHours(cfg.Retention) > 0) =>
            LET log == retentionLog'[r]
                expired == {o \in log.listed :
                               Expired(o, RetentionHours(cfg.Retention))}
            IN  /\ log.tried = expired
                /\ log.failed \subseteq expired
                /\ bucket' = bucket \ (expired \ log.failed)]_vars

\* one removal failed and another expired object was removed all the same
C29_Witness ==
    \E r \in Runs :
        /\ pc[r] = "report"
        /\ retentionLog[r].failed # {}
        /\ retentionLog[r].tried \ retentionLog[r].failed # {}
        /\ (retentionLog[r].tried \ retentionLog[r].failed) \cap bucket = {}

\* the entries before position i of the filtered list that the loop does
\* not skip
ProcessedBefore(r, i) ==
    SelectSeq(SubSeq(databases[r], 1, i - 1),
              LAMBDA dbName : ~shouldExcludeDB(dbName))

\* C30: a run has one target in progress at most, the one at the loop's
\* index, and while the loop is at an index the results are those of the
\* targets before it, in order: a pipeline starts after the result of the
\* target before it was appended.
C30_TargetsStrictlySequential ==
    \A r \in Runs :
        (variant[r] \notin GitlabVariants
         /\ pc[r] \in {"loop", "dump", "archive", "hash", "publish"}) =>
            Names(results[r]) = ProcessedBefore(r, idx[r])

\* the pipeline of a run's second target has started, the first target's
\* failed result being in
C30_Witness ==
    \E r \in Runs :
        /\ pc[r] = "dump" /\ idx[r] = 2
        /\ Len(results[r]) = 1 /\ ~results[r][1].Success

\* C31: the publish mode is fixed for the whole run: a run has either only
\* copied artifacts to the local directory or only uploaded them, in the
\* mode of its --only-dump flag; an only-dump run has put no object into
\* the bucket, and no target's pipeline invoked the publish step twice.
C31_PublishModeFixed ==
    \A r \in Runs :
        /\ calls[r].copy = 0 \/ calls[r].upload = 0
        /\ calls[r].copy + calls[r].upload = calls[r].publish
        /\ onlyDump[r] => calls[r].upload = 0
        /\ ~onlyDump[r] => calls[r].copy = 0
        /\ onlyDump[r] => \A o \in bucket : o.key[1] # r
        /\ Cardinality({i \in 1..Len(stages[r]) :
                            stages[r][i].stage = "publish"}) <= 1

\* a run has copied the artifacts of two targets to the local directory
C31_Witness ==
    \E r \in Runs :
        /\ onlyDump[r]
        /\ calls[r].copy = 2
        /\ Len(results[r]) = 2
        /\ \A i \in 1..2 : results[r][i].Success

\* the paths a run used for one target
PathsOf(entry) == {entry.dumpDir, entry.localZipPath}

\* C32: within one run, the staging path and the archive path used for two
\* different targets never collide: targets of different names share none
\* of their paths.
C32_PathsNeverCollide ==
    \A r \in Runs :
        \A i, j \in 1..Len(paths[r]) :
            paths[r][i].Database # paths[r][j].Database =>
                PathsOf(paths[r][i]) \cap PathsOf(paths[r][j]) = {}

\* a run has processed two targets of different names whose paths carry
\* the same timestamp
C32_Witness ==
    \E r \in Runs :
        /\ Len(results[r]) >= 2
        /\ \E i, j \in 1..Len(paths[r]) :
            /\ paths[r][i].Database # paths[r][j].Database
            /\ \E t \in 0..MaxRunHours :
                /\ paths[r][i].dumpDir =
                       DumpDirName(paths[r][i].Database, Format(t))
                /\ paths[r][j].dumpDir =
                       DumpDirName(paths[r][j].Database, Format(t))

\* C33: the archive step is invoked whatever the passphrase: with an empty
\* passphrase the zip process runs without the encryption flag "-P", with a
\* non-empty passphrase it runs with "-P" followed by that passphrase.
C33_EncryptionFlagIffPassphrase ==
    \A r \in Runs :
        \A i \in 1..Len(stages[r]) :
            stages[r][i].stage = "archive" =>
                IF cfg.Password = ""
                THEN "-P" \notin Range(stages[r][i].args)
                ELSE /\ stages[r][i].args[1] = "-P"
                     /\ stages[r][i].args[2] = cfg.Password

\* C34: a BackupResult with Success = true is produced only by the step in
\* which the target's publish step completes without error: the artifact
\* has then been copied to the local directory (local mode) or is an object
\* of the bucket (remote mode).
C34_SuccessOnlyAfterPublish ==
    [][\A r \in Runs :
          (/\ results'[r] # results[r]
           /\ Len(results'[r]) > 0
           /\ results'[r][Len(results'[r])].Success) =>
              /\ pc[r] = "publish"
              /\ LET last == stages'[r][Len(stages'[r])]
                 IN  last.stage = "publish" /\ last.ok
              /\ IF onlyDump[r]
                 THEN calls'[r].copy = calls[r].copy + 1
                 ELSE /\ calls'[r].upload = calls[r].upload + 1
                      /\ Object(r, CurDb(r)) \in bucket']_vars

\* a target was reported successful in remote mode and its object is in
\* the bucket
C34_Witness ==
    \E r \in Runs :
        /\ AfterTarget(r)
        /\ ~onlyDump[r]
        /\ results[r][Len(results[r])].Success
        /\ \E o \in bucket : o.key[1] = r

\* C35: an artifact uploaded by a run is never deleted by that same run's
\* retention enforcement, however long the run's target processing takes.
C35_OwnUploadsSurviveRetention ==
    [][\A r \in Runs :
          (pc[r] = "retention" /\ pc'[r] = "report") =>
              \A o \in bucket : o.key[1] = r => o \in bucket']_vars

\* C36: in local (only-dump) mode a run performs no operation that changes
\* remote storage: no step of such a run uploads an artifact or deletes a
\* remote object.
C36_LocalModeLeavesBucketAlone ==
    [][\A r \in Runs :
          (onlyDump[r] /\ pc'[r] # pc[r]) => bucket' = bucket]_vars

\* C37: when at least one include prefix is configured, the dump of a
\* schema is restricted to the explicit include tables plus the catalog
\* tables whose names start with an include prefix (the list the script
\* computed), also when that list is empty.
C37_IncludePrefixRestrictsDump ==
    \A r \in Runs :
        (variant[r] # "workflow" /\ cfg.TableFilters.IncludePrefix # {}) =>
            \A i \in 1..Len(dumpOpts[r]) :
                dumpOpts[r][i].dumped \subseteq dumpOpts[r][i].includeTables

\* C38: in the container backup, if locating the most recent backup file
\* yields an empty path, the target fails with "no backup file found" and
\* no copy from the container is attempted: no run is about to run docker cp
\* with the path an empty find output gives.
C38_EmptyPathStopsBeforeCopy ==
    \A r \in Runs :
        pc[r] = "g_cp" => remoteBackupPath[r] # Clean("")

\* C39: Recover invokes the external restore process only if the dump
\* metadata file (@.json) was found in the resolved dump directory; after
\* every other outcome of the metadata check it has returned an error and
\* is not at, or past, the restore.
C39_RestoreOnlyWithMetadata ==
    \A r \in Runs :
        /\ rec[r].loadDump => rec[r].meta = "found"
        /\ pc[r] \in {"r_load", "r_ret"} => rec[r].meta = "found"

=============================================================================
